---------------------------- MODULE Spec2Model ----------------------------
(***************************************************************************)
(* Model of the portfolio site's client state machines (homepage           *)
(* slideshow, projects grid and overlay), its content accessors and its    *)
(* media renderer.                                                         *)
(*                                                                         *)
(* Conventions.  An optional JavaScript value is a tuple: <<>> is          *)
(* undefined (absent) and <<v>> is the value v.  Array indices are the     *)
(* source's 0-based indices; the element at index i of a sequence s is    *)
(* s[i + 1].  A string whose characters matter is a sequence of           *)
(* one-character strings.                                                  *)
(***************************************************************************)
EXTENDS Integers, Sequences, FiniteSets, TLC

None == <<>>

Some(v) == <<v>>

\* JavaScript truthiness of an optional object, string, boolean.
TruthyObj(o) == o # None

TruthyStr(o) == o # None /\ o[1] # ""

TruthyBool(o) == o # None /\ o[1]

\* a ?? b
Coalesce(o, d) == IF o # None THEN o[1] ELSE d

\* All sequences over S of length lo..hi.
SeqsBetween(S, lo, hi) == UNION {[1..k -> S] : k \in lo..hi}

(***************************************************************************)
(* Bounds of the model.                                                    *)
(***************************************************************************)
MaxSlides == 2

MaxItems == 2

MaxKey == 2

MaxCalls == 2

MaxBlocks == 2

MaxChildren == 2

MaxDocs == 2


(***************************************************************************)
(* Media items.  One record shape covers the image and the video variant   *)
(* of MediaItem and of Project.slideshowImages[number]; a field the        *)
(* object does not carry is None.                                          *)
(***************************************************************************)
FlagValues == {None, Some(TRUE), Some(FALSE)}

\* Asset references as character sequences.
RefDocumented == <<"f", "i", "l", "e", "-", "a", "-", "m">>

RefDotted == <<"f", "i", "l", "e", "-", "a", "-", "m", ".", "x">>

RefImage == <<"i", "m", "a", "g", "e", "-", "a", "-", "j">>

FileAssets ==
    { [url |-> None, ref |-> None],
      [url |-> Some("https://cdn/u.mp4"), ref |-> None],
      [url |-> Some(""), ref |-> Some(RefDotted)],
      [url |-> None, ref |-> Some(RefDocumented)],
      [url |-> None, ref |-> Some(RefDotted)],
      [url |-> None, ref |-> Some(RefImage)] }

VideoFiles == {None, Some([asset |-> None])} \cup {Some([asset |-> Some(a)]) : a \in FileAssets}

MediaItems ==
    [ type : {None, Some("image"), Some("video")},
      asset : {None, Some("image-ref")},
      startVisible : {None},
      videoType : {None, Some("mux"), Some("file")},
      muxPlaybackId : {None, Some(""), Some("pid")},
      videoFile : VideoFiles,
      autoplay : FlagValues,
      loop : FlagValues,
      muted : FlagValues,
      controls : FlagValues ]

\* An image object {asset, alt} seen as a media item.
ImageMedia(asset, sv) ==
    [ type |-> None, asset |-> asset, startVisible |-> sv, videoType |-> None,
      muxPlaybackId |-> None, videoFile |-> None, autoplay |-> None,
      loop |-> None, muted |-> None, controls |-> None ]

\* A hosted-playback-id video object with the given playback id.
MuxMedia(type, id, sv) ==
    [ type |-> type, asset |-> None, startVisible |-> sv, videoType |-> Some("mux"),
      muxPlaybackId |-> id, videoFile |-> None, autoplay |-> None,
      loop |-> None, muted |-> None, controls |-> None ]

\* m.videoFile?.asset
VideoFileAsset(m) == IF m.videoFile = None THEN None ELSE m.videoFile[1].asset

isVideo_AnyMux(media) ==
    \/ media.type = Some("video")
    \/ media.videoType = Some("mux")
    \/ media.videoType = Some("file") /\ TruthyObj(VideoFileAsset(media))

isVideo(media) ==
    \/ media.type = Some("video")
    \/ media.videoType = Some("mux") /\ TruthyStr(media.muxPlaybackId)
    \/ media.videoType = Some("file") /\ TruthyObj(VideoFileAsset(media))

Min(S) == CHOOSE x \in S : \A y \in S : x <= y

\* ref.match(/^file-([^-]+)-([^.]+)\.(.+)$/): None, or the groups used.
RefMatch(ref) ==
    LET n == Len(ref)
        dashes == {i \in 6..n : ref[i] = "-"}
        d == IF dashes = {} THEN 0 ELSE Min(dashes)
        dots == {j \in (d + 1)..n : ref[j] = "."}
        t == IF dots = {} THEN 0 ELSE Min(dots)
    IN  IF /\ n >= 5
           /\ SubSeq(ref, 1, 5) = <<"f", "i", "l", "e", "-">>
           /\ dashes # {} /\ d > 6
           /\ dots # {} /\ t > d + 1
           /\ t < n
           /\ \A k \in (t + 1)..n : ref[k] # "\n"
        THEN Some([fileId |-> SubSeq(ref, 6, d - 1), extension |-> SubSeq(ref, t + 1, n)])
        ELSE None

\* process.env as read by getVideoSource.
Envs == [projectId : {None, Some("proj")}, dataset : {None, Some("staging")}]

getVideoSource(media, env) ==
    IF media.videoType = Some("mux") /\ TruthyStr(media.muxPlaybackId)
    THEN Some([kind |-> "playbackId", id |-> media.muxPlaybackId[1]])
    ELSE IF media.videoType = Some("file")
    THEN LET a == VideoFileAsset(media)
         IN  IF a # None /\ TruthyStr(a[1].url)
             THEN Some([kind |-> "url", url |-> a[1].url[1]])
             ELSE IF a # None /\ a[1].ref # None /\ a[1].ref[1] # <<>>
             THEN LET match == RefMatch(a[1].ref[1])
                      dataset == IF TruthyStr(env.dataset) THEN env.dataset[1] ELSE "production"
                  IN  IF match # None /\ TruthyStr(env.projectId)
                      THEN Some([kind |-> "cdn", projectId |-> env.projectId[1],
                                 dataset |-> dataset, fileId |-> match[1].fileId,
                                 extension |-> match[1].extension])
                      ELSE None
             ELSE None
    ELSE None

FlagOrDefault_Falsy(flag, default) == IF TruthyBool(flag) THEN TRUE ELSE default

\* flag !== undefined ? flag : default
FlagOrDefault(flag, default) == IF flag # None THEN flag[1] ELSE default

\* The element OptimizedMedia returns and the playback props it passes.
OptimizedMedia(media, isInView, env) ==
    LET isVideoItem == isVideo(media)
        showControls == IF isVideoItem THEN FlagOrDefault(media.controls, TRUE) ELSE TRUE
        shouldAutoplay == IF isVideoItem THEN FlagOrDefault(media.autoplay, FALSE) ELSE FALSE
        shouldLoop == IF isVideoItem THEN FlagOrDefault(media.loop, FALSE) ELSE FALSE
        shouldMute == IF isVideoItem THEN FlagOrDefault(media.muted, TRUE) ELSE TRUE
        effectiveAutoplay == shouldAutoplay /\ isInView
        videoSource == getVideoSource(media, env)
        element == IF ~isVideoItem
                   THEN IF ~TruthyObj(media.asset) THEN "null" ELSE "OptimizedImage"
                   ELSE IF videoSource = None THEN "null"
                   ELSE IF media.videoType = Some("mux") THEN "MuxPlayer"
                   ELSE "video"
    IN  [path |-> IF isVideoItem THEN "video" ELSE "image",
         element |-> element,
         source |-> IF isVideoItem THEN videoSource ELSE None,
         controls |-> showControls, autoplay |-> shouldAutoplay,
         autoPlay |-> effectiveAutoplay, loop |-> shouldLoop, muted |-> shouldMute]

toMediaItem_TagAnyMux(item) ==
    IF item = None THEN None
    ELSE IF TruthyObj(item[1].asset) THEN item
    ELSE IF item[1].videoType = Some("mux")
    THEN Some([item[1] EXCEPT !.type = Some("video")])
    ELSE IF item[1].videoType = Some("file") /\ TruthyObj(VideoFileAsset(item[1]))
    THEN Some([item[1] EXCEPT !.type = Some("video")])
    ELSE None

\* Normalize a project slideshow item to a MediaItem, or null.
toMediaItem(item) ==
    IF item = None THEN None
    ELSE IF TruthyObj(item[1].asset) THEN item
    ELSE IF item[1].videoType = Some("mux") /\ TruthyStr(item[1].muxPlaybackId)
    THEN Some([item[1] EXCEPT !.type = Some("video")])
    ELSE IF item[1].videoType = Some("file") /\ TruthyObj(VideoFileAsset(item[1]))
    THEN Some([item[1] EXCEPT !.type = Some("video")])
    ELSE None

hasVideo_AnyVideo(item) == item.video # None

\* hasVideo of HomePageContent's slideshowItems, as a truth value.
hasVideo(item) ==
    /\ item.video # None
    /\ IF item.video[1].videoType = Some("mux")
       THEN TruthyStr(item.video[1].muxPlaybackId)
       ELSE IF item.video[1].videoType = Some("file")
       THEN TruthyObj(VideoFileAsset(item.video[1]))
       ELSE FALSE

\* The media of one homepage slideshow item.
HomeSlideMedia(item) ==
    IF hasVideo(item)
    THEN Some([item.video[1] EXCEPT !.type = Some("video")])
    ELSE item.image


(***************************************************************************)
(* Titles: a legacy string, a sequence of rich-text blocks, or absent.     *)
(* Text is a sequence of characters.                                       *)
(***************************************************************************)
Whitespace == {" ", "\n"}

RECURSIVE TrimStart(_)
TrimStart(t) ==
    IF t # <<>> /\ Head(t) \in Whitespace THEN TrimStart(Tail(t)) ELSE t

RECURSIVE TrimEnd(_)
TrimEnd(t) ==
    IF t # <<>> /\ t[Len(t)] \in Whitespace THEN TrimEnd(SubSeq(t, 1, Len(t) - 1)) ELSE t

\* String.prototype.trim
Trim(t) == TrimEnd(TrimStart(t))

\* Array.prototype.join of texts with a separator text.
RECURSIVE Join(_, _)
Join(texts, sep) ==
    IF texts = <<>> THEN <<>>
    ELSE IF Len(texts) = 1 THEN texts[1]
    ELSE texts[1] \o sep \o Join(Tail(texts), sep)

\* children?.filter(span).map(text ?? "").join("") ?? ""
BlockText(block) ==
    IF block.children = None THEN <<>>
    ELSE LET cs == block.children[1]
             spans == SelectSeq(cs, LAMBDA c : c.type = Some("span"))
         IN  Join([i \in 1..Len(spans) |-> Coalesce(spans[i].text, <<>>)], <<>>)

projectTitleToPlainText_NoTrim(title) ==
    IF title.kind = "string" THEN title.text
    ELSE IF title.kind # "blocks" THEN <<>>
    ELSE Join([i \in 1..Len(title.blocks) |-> BlockText(title.blocks[i])], <<"\n">>)

\* Plain text from project title (blocks or legacy string).
projectTitleToPlainText(title) ==
    IF title.kind = "string" THEN title.text
    ELSE IF title.kind # "blocks" THEN <<>>
    ELSE Trim(Join([i \in 1..Len(title.blocks) |-> BlockText(title.blocks[i])], <<"\n">>))

\* The project schema's copy, used for validation, slug source and preview.
titleToPlainText(title) ==
    IF title.kind = "string" THEN title.text
    ELSE IF title.kind # "blocks" THEN <<>>
    ELSE Trim(Join([i \in 1..Len(title.blocks) |-> BlockText(title.blocks[i])], <<"\n">>))

\* The copy in the earlier version of the project schema.
titleToPlainTextPrior(title) ==
    IF title.kind = "string" THEN title.text
    ELSE IF title.kind # "blocks" THEN <<>>
    ELSE Trim(Join([i \in 1..Len(title.blocks) |-> BlockText(title.blocks[i])], <<"\n">>))

Untitled == <<"U", "n", "t", "i", "t", "l", "e", "d">>

\* projectTitleToPlainText(project.title) || "Untitled"
TitleOrUntitled(title) ==
    LET plain == projectTitleToPlainText(title)
    IN  IF plain # <<>> THEN plain ELSE Untitled

(***************************************************************************)
(* Content access layer.  A value returned by the content source or by an  *)
(* accessor is null, one document, or an array of documents.               *)
(***************************************************************************)
JsNull == [kind |-> "null"]

JsDoc(d) == [kind |-> "doc", doc |-> d]

JsArray(a) == [kind |-> "array", items |-> a]

ListAccessors == {"getProjects", "getAllPosts"}

SlugAccessors == {"getProjectBySlug", "getPageBySlug", "getPostBySlug"}

Accessors ==
    {"getGlobalSettings", "getHomepage"} \cup ListAccessors \cup SlugAccessors

\* What the catch block of each accessor returns.
Fallback(name) == IF name \in ListAccessors THEN JsArray(<<>>) ELSE JsNull

\* The try block: its one await sanityClient.fetch(query) settles with
\* `outcome`.  `fetches` counts the calls of sanityClient.fetch.
AccessorTry(name, outcome) ==
    IF outcome.ok
    THEN [completion |-> "return", value |-> outcome.data, logged |-> 0, fetches |-> 1]
    ELSE [completion |-> "throw", value |-> JsNull, logged |-> 0, fetches |-> 1]

AccessorCatch_RetryOnce(name, attempt) ==
    IF attempt.completion = "throw"
    THEN [completion |-> "return", value |-> Fallback(name), logged |-> 1,
          fetches |-> attempt.fetches + 1]
    ELSE attempt

AccessorCatch_Rethrow(name, attempt) == attempt

\* The catch block: log the error and return the fallback.
AccessorCatch(name, attempt) ==
    IF attempt.completion = "throw"
    THEN [completion |-> "return", value |-> Fallback(name), logged |-> 1,
          fetches |-> attempt.fetches]
    ELSE attempt

\* One accessor call whose single fetch settles with `outcome`.
RunAccessor(name, outcome) == AccessorCatch(name, AccessorTry(name, outcome))

FetchError == [ok |-> FALSE]

FetchOk(data) == [ok |-> TRUE, data |-> data]


(***************************************************************************)
(* Content the source can hold.                                            *)
(***************************************************************************)
SpanA == [type |-> Some("span"), text |-> Some(<<"a">>)]

\* Titles of the documents "p1", "p2", ...: rich-text blocks, then a legacy
\* empty string, then absent.
TitleOf(k) ==
    IF k = 1 THEN [kind |-> "blocks", blocks |-> <<[children |-> Some(<<SpanA, SpanA>>)]>>]
    ELSE IF k = 2 THEN [kind |-> "string", text |-> <<>>]
    ELSE [kind |-> "undefined"]

ProjectIds == <<"p1", "p2">>

\* Slides a project document carries: an image flagged startVisible, an
\* unflagged image, a hosted video without playback id.
SlideShapes ==
    { ImageMedia(Some("image-ref"), Some(TRUE)),
      ImageMedia(Some("image-ref"), None),
      MuxMedia(Some("video"), Some(""), Some(FALSE)) }

SlideLists == {None} \cup {Some(l) : l \in SeqsBetween(SlideShapes, 0, MaxSlides)}

\* No slide, or one unflagged image.
PlainSlideLists ==
    {Some(l) : l \in SeqsBetween({ImageMedia(Some("image-ref"), None)}, 0, 1)}

\* Assignments of distinct order values 1..n to n documents.
OrderValues(n) == {f \in [1..n -> 1..n] : \A i, j \in 1..n : f[i] = f[j] => i = j}

\* The project documents of a dataset, as stored.  The last document's slides
\* vary freely; the ones before it carry at most one unflagged image.
ProjectDatasets ==
    UNION { { [k \in 1..n |-> [id |-> ProjectIds[k], title |-> TitleOf(k),
                               order |-> ord[k], slideshowImages |-> sl[k]]] :
              sl \in {f \in [1..n -> SlideLists \cup PlainSlideLists] :
                         \A k \in 1..n : k < n => f[k] \in PlainSlideLists},
              ord \in OrderValues(n) }
            : n \in 0..Len(ProjectIds) }

OrderAsc_AsStored(docs) == docs

\* GROQ `| order(order asc)`: the documents by ascending order value, documents
\* of equal order value as stored.
OrderAsc(docs) ==
    LET n == Len(docs)
        before(j, k) ==
            docs[j].order < docs[k].order \/ (docs[j].order = docs[k].order /\ j < k)
        rank(k) == Cardinality({j \in 1..n : before(j, k)}) + 1
    IN  [i \in 1..n |-> docs[CHOOSE k \in 1..n : rank(k) = i]]

\* Results of the getProjects query.
ProjectLists == {OrderAsc(docs) : docs \in ProjectDatasets}

HomeItemShapes ==
    { [image |-> Some(ImageMedia(Some("image-ref"), None)), video |-> None],
      [image |-> Some(ImageMedia(Some("image-ref"), None)),
       video |-> Some(MuxMedia(None, Some("pid"), None))],
      [image |-> Some(ImageMedia(Some("image-ref"), None)),
       video |-> Some(MuxMedia(Some("video"), Some(""), None))],
      [image |-> None, video |-> Some(MuxMedia(Some("video"), None, None))],
      [image |-> Some(ImageMedia(None, None)), video |-> None],
      [image |-> Some(ImageMedia(Some("image-ref"), None)),
       video |-> Some([MuxMedia(None, None, None) EXCEPT
                          !.videoType = Some("file"),
                          !.videoFile = Some([asset |-> Some([url |-> None,
                                                              ref |-> None])])])] }

\* Results of the getHomepage query: no document, or one with optional items.
HomepageDocs ==
    {JsNull, JsDoc([items |-> None])}
        \cup {JsDoc([items |-> Some(l)]) : l \in SeqsBetween(HomeItemShapes, 0, MaxItems)}

\* Children of a title block: a span, a span without text, an inline object.
TitleChildren ==
    { [type |-> Some("span"), text |-> Some(<<"a">>)],
      [type |-> Some("span"), text |-> None],
      [type |-> Some("link"), text |-> Some(<<"b">>)] }

TitleBlocks ==
    {[children |-> None]}
        \cup {[children |-> Some(cs)] : cs \in SeqsBetween(TitleChildren, 0, MaxChildren)}

\* Texts of legacy string titles.
StringTexts == {<<>>, <<"a">>, <<" ", "a">>}

\* Values of a project's title field: blocks, a legacy string, absent, or
\* some other value.
Titles ==
    {[kind |-> "blocks", blocks |-> bs] : bs \in SeqsBetween(TitleBlocks, 0, MaxBlocks)}
        \cup {[kind |-> "string", text |-> t] : t \in StringTexts}
        \cup {[kind |-> "undefined"], [kind |-> "object"]}

(***************************************************************************)
(* State.                                                                  *)
(***************************************************************************)
VARIABLES
    route,                 \* the page requested: "home", "projects"
    stage,                 \* "request", "mounted", "empty", "error"
    homepage,              \* Home: what getHomepage returned, once it has
    items,                 \* HomePageContent: props.items
    selectedIndex,         \* HomePageContent
    homeLastDirection,     \* HomePageContent: lastDirection
    homeDirectionChangeKey,\* HomePageContent: directionChangeKey
    projects,              \* ProjectsPageClient: props.projects
    overlay,               \* ProjectsPageClient
    overlaySlideIndex,     \* ProjectsPageClient
    lastDirection,         \* ProjectsPageClient
    directionChangeKey,    \* ProjectsPageClient
    visibleImages,         \* ProjectsGrid
    fetchPc,               \* an accessor call: "idle", "pending", "settled"
    fetchCall,             \* the accessor called and its slug argument
    fetchQueries,          \* queries the current call has sent to the source
    fetchReturn,           \* how the call completed, once settled
    fetchCalls,            \* accessor calls started so far
    mItem,                 \* a media object as delivered by the source
    mPhase,                \* "input", "normalized", "rendered"
    mPath,                 \* who normalized it: "grid", "home", "direct"
    mImage,                \* the image beside it in a homepage item
    mMedia,                \* the media handed to the slideshow / renderer
    mOut,                  \* what OptimizedMedia rendered for it
    tTitle,                \* a title value handed to plain-text extraction
    tCopy,                 \* the copy of the extraction that ran: "none", ...
    tPlain,                \* the text it returned
    migEnv,                \* migration script: process.env
    migPc,                 \* migration script: position in the script
    migStore,              \* the dataset: title of each project document
    migOriginal,           \* the dataset before the current run started
    migDocs,               \* run: docs
    migIndex,              \* run: position of the for loop in docs
    migrated,              \* run: migrated
    migLog,                \* messages written to the console
    migExit,               \* exit status of the process, once it has ended
    migReads,              \* queries sent to the dataset
    migPatched,            \* ids of the documents patched, in commit order
    migFirst,              \* the dataset before the first run of the script
    migDone,               \* the dataset as the first completed run left it
    renderedSlideIndex,    \* overlaySlideIndex as the rendered handlers captured it
    activatedNext,         \* onNext activations handled since the overlay opened
    activatedPrev,         \* onPrev activations handled since the overlay opened
    keyAtOpen              \* directionChangeKey when the overlay opened

pageVars == <<route, stage, homepage>>

homeVars == <<items, selectedIndex, homeLastDirection, homeDirectionChangeKey>>

overlayVars == <<overlay, overlaySlideIndex, lastDirection, directionChangeKey>>

gridVars == <<projects, overlayVars, visibleImages>>

fetchVars == <<fetchPc, fetchCall, fetchQueries, fetchReturn, fetchCalls>>

mediaVars == <<mItem, mPhase, mPath, mImage, mMedia, mOut>>

titleVars == <<tTitle, tCopy, tPlain>>

migrateVars ==
    <<migEnv, migPc, migStore, migOriginal, migDocs, migIndex, migrated, migLog,
      migExit, migReads, migPatched, migFirst, migDone>>

batchVars == <<renderedSlideIndex, activatedNext, activatedPrev, keyAtOpen>>

vars ==
    <<pageVars, homeVars, gridVars, fetchVars, mediaVars, titleVars, migrateVars, batchVars>>

(***************************************************************************)
(* Pure parts of the components.                                           *)
(***************************************************************************)
\* JavaScript remainder: the sign follows the dividend.
JsMod(a, b) == IF a >= 0 THEN a % b ELSE -((-a) % b)

StepPrev_NoWrap(i, n) == JsMod(i - 1, n)

\* (i - 1 + n) % n
StepPrev(i, n) == JsMod(i - 1 + n, n)

StepNext_NoWrap(i, n) == i + 1

\* (i + 1) % n
StepNext(i, n) == JsMod(i + 1, n)

\* project.slideshowImages ?? []
SlidesOf(project) == Coalesce(project.slideshowImages, <<>>)

RECURSIVE flattenProjectImages(_)
flattenProjectImages(ps) ==
    IF ps = <<>> THEN <<>>
    ELSE LET project == Head(ps)
             images == SlidesOf(project)
         IN  [i \in 1..Len(images) |->
                 [project |-> project, image |-> images[i], imageIndex |-> i - 1,
                  totalImages |-> Len(images)]]
             \o flattenProjectImages(Tail(ps))

getInitialVisibleIndices_ByImageIndex(cells) ==
    {cells[k + 1].imageIndex :
        k \in {j \in 0..(Len(cells) - 1) : TruthyBool(cells[j + 1].image.startVisible)}}

getInitialVisibleIndices(cells) ==
    {k \in 0..(Len(cells) - 1) : TruthyBool(cells[k + 1].image.startVisible)}

toggleCell_AddOnly(prev, index) == prev \cup {index}

\* The updater of toggleCell.
toggleCell(prev, index) ==
    IF index \in prev THEN prev \ {index} ELSE prev \cup {index}

\* projects.find((p) => p._id === id)
FindProject(ps, id) ==
    LET hits == {k \in 1..Len(ps) : ps[k].id = id}
    IN  IF hits = {} THEN None ELSE Some(ps[Min(hits)])

projectToMediaSlideshowItems(project) ==
    IF project = None THEN <<>>
    ELSE LET images == SlidesOf(project[1])
         IN  [i \in 1..Len(images) |-> [media |-> toMediaItem(Some(images[i]))]]

\* HomePageContent: slideshowItems
slideshowItems == [i \in 1..Len(items) |-> [media |-> HomeSlideMedia(items[i])]]

\* ProjectsGrid: items, overlayProject, overlayMediaItems
cells == flattenProjectImages(projects)

overlayProject == IF overlay # None THEN FindProject(projects, overlay[1].projectId) ELSE None

overlayMediaItems == projectToMediaSlideshowItems(overlayProject)

\* MediaSlideshow renders its prev/next buttons only around a current media.
SlideshowRendersButtons(slides, currentIndex) ==
    /\ currentIndex \in 0..(Len(slides) - 1)
    /\ slides[currentIndex + 1].media # None

\* What <OptimizedMedia media={media} /> evaluates to; reading a property of
\* a null media throws.
OptimizedMediaElement(media, env) ==
    IF media = None THEN "TypeError" ELSE OptimizedMedia(media[1], TRUE, env).element

MediaSlideshow_NoGuard(slides, currentIndex, env) ==
    [buttons |-> TRUE,
     content |-> IF currentIndex \in 0..(Len(slides) - 1)
                 THEN OptimizedMediaElement(slides[currentIndex + 1].media, env)
                 ELSE "TypeError"]

\* What MediaSlideshow renders: nothing at all without a current media, else
\* the prev/next buttons around the media's element.
MediaSlideshow(slides, currentIndex, env) ==
    IF ~SlideshowRendersButtons(slides, currentIndex)
    THEN [buttons |-> FALSE, content |-> "null"]
    ELSE [buttons |-> TRUE,
          content |-> OptimizedMediaElement(slides[currentIndex + 1].media, env)]

OverlayViewerRendered_NeedsMedia ==
    overlay # None /\ SlideshowRendersButtons(overlayMediaItems, overlaySlideIndex)

\* {overlay && overlayMediaItems.length > 0 && (backdrop with the viewer)}
OverlayViewerRendered == overlay # None /\ Len(overlayMediaItems) > 0

\* Nav, hover variant: the counter, rendered when totalSlides > 0.
NavCounter(currentSlideIndex, totalSlides) ==
    IF totalSlides > 0 THEN Some(<<currentSlideIndex + 1, totalSlides>>) ELSE None

\* ProjectsPageClient: which Nav is rendered.
NavVariant == IF overlay # None THEN "hover" ELSE "projects"

isCurrentOverlaySlide_AnyProject(k) ==
    /\ overlay # None
    /\ overlaySlideIndex = cells[k + 1].imageIndex

\* The cells carrying the active-cell indicator.
isCurrentOverlaySlide(k) ==
    /\ overlay # None
    /\ overlay[1].projectId = cells[k + 1].project.id
    /\ overlaySlideIndex = cells[k + 1].imageIndex


(***************************************************************************)
(* Initial values of each component's state.                               *)
(***************************************************************************)
HomeInitial ==
    /\ items = <<>>
    /\ selectedIndex = 0
    /\ homeLastDirection = None
    /\ homeDirectionChangeKey = 0

GridInitial ==
    /\ projects = <<>>
    /\ overlay = None
    /\ overlaySlideIndex = 0
    /\ lastDirection = None
    /\ directionChangeKey = 0
    /\ visibleImages = {}

FetchIdle ==
    /\ fetchPc = "idle"
    /\ fetchCall = None
    /\ fetchQueries = 0
    /\ fetchReturn = None
    /\ fetchCalls = 0

MediaIdle ==
    /\ mItem = ImageMedia(None, None)
    /\ mPhase = "idle"
    /\ mPath = "none"
    /\ mImage = None
    /\ mMedia = None
    /\ mOut = None

TitleIdle ==
    /\ tTitle = [kind |-> "undefined"]
    /\ tCopy = "idle"
    /\ tPlain = None

MigrateIdle ==
    /\ migEnv = [projectId |-> None, token |-> None]
    /\ migPc = "idle"
    /\ migStore = <<>>
    /\ migOriginal = <<>>
    /\ migDocs = <<>>
    /\ migIndex = 0
    /\ migrated = 0
    /\ migLog = <<>>
    /\ migExit = None
    /\ migReads = 0
    /\ migPatched = <<>>
    /\ migFirst = <<>>
    /\ migDone = None

BatchIdle ==
    /\ renderedSlideIndex = None
    /\ activatedNext = 0
    /\ activatedPrev = 0
    /\ keyAtOpen = 0

PagesIdle ==
    /\ route = "none"
    /\ stage = "idle"
    /\ homepage = None
    /\ HomeInitial
    /\ GridInitial

\* A request for the homepage or the projects page arrives.
Init ==
    /\ route \in {"home", "projects"}
    /\ stage = "request"
    /\ homepage = None
    /\ HomeInitial
    /\ GridInitial
    /\ FetchIdle
    /\ MediaIdle
    /\ TitleIdle
    /\ MigrateIdle
    /\ BatchIdle

(***************************************************************************)
(* Pages: the server components fetch, then mount the client component.    *)
(***************************************************************************)
\* Outcomes of the one fetch of Home and of ProjectsPage.
HomeFetchOutcomes == {FetchOk(d) : d \in HomepageDocs} \cup {FetchError}

ProjectsFetchOutcomes == {FetchOk(JsArray(l)) : l \in ProjectLists} \cup {FetchError}

AwaitingFetch_AtAnyStage(page) == route = page

\* The page's server component has been requested and awaits its accessor.
AwaitingFetch(page) == route = page /\ stage = "request"

HomeRendersContent_Always(fetched) == TRUE

\* Home: {items.length > 0 ? <HomePageContent items={items} /> : null}
HomeRendersContent(fetched) == Len(fetched) > 0

\* Home: getHomepage, items = homepage?.items ?? [], mount if non-empty.
LoadHome ==
    /\ AwaitingFetch("home")
    /\ \E outcome \in HomeFetchOutcomes :
          LET r == RunAccessor("getHomepage", outcome)
              fetched == IF r.value.kind = "doc" THEN Coalesce(r.value.doc.items, <<>>)
                         ELSE <<>>
          IN  IF r.completion = "throw"
              THEN stage' = "error" /\ UNCHANGED <<homepage, homeVars>>
              ELSE /\ homepage' = Some(r.value)
                   /\ IF HomeRendersContent(fetched)
                      THEN /\ stage' = "mounted"
                           /\ items' = fetched
                           /\ selectedIndex' = 0
                           /\ homeLastDirection' = None
                           /\ homeDirectionChangeKey' = 0
                      ELSE stage' = "empty" /\ UNCHANGED homeVars
    /\ UNCHANGED <<route, gridVars, fetchVars, mediaVars, titleVars, migrateVars, batchVars>>

\* ProjectsPage: getProjects, mount ProjectsPageClient and ProjectsGrid.
LoadProjects ==
    /\ AwaitingFetch("projects")
    /\ \E outcome \in ProjectsFetchOutcomes :
          LET r == RunAccessor("getProjects", outcome)
          IN  IF r.completion = "throw" \/ r.value.kind # "array"
              THEN stage' = "error" /\ UNCHANGED gridVars
              ELSE /\ stage' = "mounted"
                   /\ projects' = r.value.items
                   /\ overlay' = None
                   /\ overlaySlideIndex' = 0
                   /\ lastDirection' = None
                   /\ directionChangeKey' = 0
                   /\ visibleImages' =
                          getInitialVisibleIndices(flattenProjectImages(r.value.items))
    /\ UNCHANGED <<route, homepage, homeVars, fetchVars, mediaVars, titleVars, migrateVars,
                   batchVars>>

HomeMounted == route = "home" /\ stage = "mounted"

GridMounted == route = "projects" /\ stage = "mounted"

\* HomePageContent: goPrev, behind MediaSlideshow's prev button.
GoPrev ==
    /\ HomeMounted
    /\ SlideshowRendersButtons(slideshowItems, selectedIndex)
    /\ homeDirectionChangeKey < MaxKey
    /\ selectedIndex' = StepPrev(selectedIndex, Len(items))
    /\ homeLastDirection' = Some("left")
    /\ homeDirectionChangeKey' = homeDirectionChangeKey + 1
    /\ UNCHANGED <<pageVars, items, gridVars, fetchVars, mediaVars, titleVars, migrateVars,
                   batchVars>>

\* HomePageContent: goNext, behind MediaSlideshow's next button.
GoNext ==
    /\ HomeMounted
    /\ SlideshowRendersButtons(slideshowItems, selectedIndex)
    /\ homeDirectionChangeKey < MaxKey
    /\ selectedIndex' = StepNext(selectedIndex, Len(items))
    /\ homeLastDirection' = Some("right")
    /\ homeDirectionChangeKey' = homeDirectionChangeKey + 1
    /\ UNCHANGED <<pageVars, items, gridVars, fetchVars, mediaVars, titleVars, migrateVars,
                   batchVars>>

\* ProjectsPageClient: openOverlay
openOverlay_KeepIndex(projectId, startIndex, projectTitle, totalSlides) ==
    /\ overlay' = Some([projectId |-> projectId, startIndex |-> startIndex,
                        projectTitle |-> projectTitle, totalSlides |-> totalSlides])
    /\ overlaySlideIndex' = overlaySlideIndex

openOverlay(projectId, startIndex, projectTitle, totalSlides) ==
    /\ overlay' = Some([projectId |-> projectId, startIndex |-> startIndex,
                        projectTitle |-> projectTitle, totalSlides |-> totalSlides])
    /\ overlaySlideIndex' = startIndex

\* openProject from the cell at index k of the grid's items.
OpenCell(grid, k) ==
    /\ GridMounted
    /\ k \in 0..(Len(grid) - 1)
    /\ LET cell == grid[k + 1]
       IN  openOverlay(cell.project.id, cell.imageIndex,
                       TitleOrUntitled(cell.project.title), cell.totalImages)
    /\ UNCHANGED <<pageVars, homeVars, projects, lastDirection, directionChangeKey,
                   visibleImages, fetchVars, mediaVars, titleVars, migrateVars, batchVars>>

\* A click or Enter/Space on grid cell k: openProject of its project and slide.
OpenProject(k) == OpenCell(cells, k)

\* ProjectsPageClient: closeOverlay
closeOverlay == overlay' = None

CloseOverlay_ResetsDirection ==
    /\ GridMounted
    /\ OverlayViewerRendered
    /\ closeOverlay
    /\ lastDirection' = None
    /\ directionChangeKey' = 0
    /\ UNCHANGED <<pageVars, homeVars, projects, overlaySlideIndex, visibleImages,
                   fetchVars, mediaVars, titleVars, migrateVars, batchVars>>

\* A click on the overlay's backdrop.
CloseOverlay ==
    /\ GridMounted
    /\ OverlayViewerRendered
    /\ closeOverlay
    /\ UNCHANGED <<pageVars, homeVars, projects, overlaySlideIndex, lastDirection,
                   directionChangeKey, visibleImages, fetchVars, mediaVars, titleVars,
                   migrateVars, batchVars>>

handleOverlayPrevClick_NoCount ==
    /\ lastDirection' = Some("left")
    /\ directionChangeKey' = directionChangeKey

\* ProjectsPageClient: handleOverlayPrevClick
handleOverlayPrevClick ==
    /\ lastDirection' = Some("left")
    /\ directionChangeKey' = directionChangeKey + 1

\* ProjectsPageClient: handleOverlayNextClick
handleOverlayNextClick ==
    /\ lastDirection' = Some("right")
    /\ directionChangeKey' = directionChangeKey + 1

\* The overlay's MediaSlideshow: onPrev.
OverlayPrev ==
    /\ GridMounted
    /\ overlay # None
    /\ directionChangeKey < MaxKey
    /\ LET slides == overlayMediaItems
       IN  /\ Len(slides) > 0
           /\ SlideshowRendersButtons(slides, overlaySlideIndex)
           /\ overlaySlideIndex' = StepPrev(overlaySlideIndex, Len(slides))
    /\ handleOverlayPrevClick
    /\ UNCHANGED <<pageVars, homeVars, projects, overlay, visibleImages, fetchVars,
                   mediaVars, titleVars, migrateVars, batchVars>>

\* The overlay's MediaSlideshow: onNext.
OverlayNext ==
    /\ GridMounted
    /\ overlay # None
    /\ directionChangeKey < MaxKey
    /\ LET slides == overlayMediaItems
       IN  /\ Len(slides) > 0
           /\ SlideshowRendersButtons(slides, overlaySlideIndex)
           /\ overlaySlideIndex' = StepNext(overlaySlideIndex, Len(slides))
    /\ handleOverlayNextClick
    /\ UNCHANGED <<pageVars, homeVars, projects, overlay, visibleImages, fetchVars,
                   mediaVars, titleVars, migrateVars, batchVars>>

EnterCell_ClosesOverlay(grid, k) ==
    /\ GridMounted
    /\ k \in 0..(Len(grid) - 1)
    /\ visibleImages' = toggleCell(visibleImages, k)
    /\ overlay' = None
    /\ UNCHANGED <<pageVars, homeVars, projects, overlaySlideIndex, lastDirection,
                   directionChangeKey, fetchVars, mediaVars, titleVars, migrateVars,
                   batchVars>>

\* toggleCell(k) from the cell at index k of the grid's items.
EnterCell(grid, k) ==
    /\ GridMounted
    /\ k \in 0..(Len(grid) - 1)
    /\ visibleImages' = toggleCell(visibleImages, k)
    /\ UNCHANGED <<pageVars, homeVars, projects, overlayVars, fetchVars, mediaVars,
                   titleVars, migrateVars, batchVars>>

\* onMouseEnter of grid cell k.
ToggleCell(k) == EnterCell(cells, k)

OpenSomeProject ==
    /\ GridMounted
    /\ LET grid == cells IN \E k \in 0..(Len(grid) - 1) : OpenCell(grid, k)

ToggleSomeCell ==
    /\ GridMounted
    /\ LET grid == cells IN \E k \in 0..(Len(grid) - 1) : EnterCell(grid, k)

Next ==
    \/ LoadHome
    \/ LoadProjects
    \/ GoPrev
    \/ GoNext
    \/ OpenSomeProject
    \/ CloseOverlay
    \/ OverlayPrev
    \/ OverlayNext
    \/ ToggleSomeCell

Spec == Init /\ [][Next]_vars


(***************************************************************************)
(* The content access layer on its own: calls of the seven accessors       *)
(* against a source that answers or fails.                                 *)
(***************************************************************************)
Slugs == {"about", "missing"}

AccessorCalls ==
    {[name |-> a, slug |-> None] : a \in Accessors \ SlugAccessors}
        \cup {[name |-> a, slug |-> Some(g)] : a \in SlugAccessors, g \in Slugs}

Documents == {[id |-> "d1"], [id |-> "d2"]}

\* What a successful fetch of the call's query can deliver.
FetchData(call) ==
    IF call.name \in ListAccessors
    THEN {JsArray(l) : l \in SeqsBetween(Documents, 0, 2)}
    ELSE IF call.slug = Some("missing") THEN {JsNull}
    ELSE {JsNull} \cup {JsDoc(d) : d \in Documents}

InitFetch ==
    /\ PagesIdle
    /\ FetchIdle
    /\ MediaIdle
    /\ TitleIdle
    /\ MigrateIdle
    /\ BatchIdle

\* An accessor is called: it sends its one query.
CallAccessor ==
    /\ fetchPc \in {"idle", "settled"}
    /\ fetchCalls < MaxCalls
    /\ \E call \in AccessorCalls : fetchCall' = Some(call)
    /\ fetchPc' = "pending"
    /\ fetchQueries' = 1
    /\ fetchReturn' = None
    /\ fetchCalls' = fetchCalls + 1
    /\ UNCHANGED <<pageVars, homeVars, gridVars, mediaVars, titleVars, migrateVars, batchVars>>

\* The query resolves with data and the accessor returns it.
FetchResolves ==
    /\ fetchPc = "pending"
    /\ \E data \in FetchData(fetchCall[1]) :
          LET r == RunAccessor(fetchCall[1].name, FetchOk(data))
          IN  fetchReturn' = Some(r) /\ fetchQueries' = r.fetches
    /\ fetchPc' = "settled"
    /\ UNCHANGED <<fetchCall, fetchCalls>>
    /\ UNCHANGED <<pageVars, homeVars, gridVars, mediaVars, titleVars, migrateVars, batchVars>>

\* The query rejects and the accessor's catch block runs.
FetchRejects ==
    /\ fetchPc = "pending"
    /\ LET r == RunAccessor(fetchCall[1].name, FetchError)
       IN  fetchReturn' = Some(r) /\ fetchQueries' = r.fetches
    /\ fetchPc' = "settled"
    /\ UNCHANGED <<fetchCall, fetchCalls>>
    /\ UNCHANGED <<pageVars, homeVars, gridVars, mediaVars, titleVars, migrateVars, batchVars>>

NextFetch ==
    \/ CallAccessor
    \/ FetchResolves
    \/ FetchRejects

SpecFetch == InitFetch /\ [][NextFetch]_vars

(***************************************************************************)
(* The media pipeline on its own: one media object is normalized by the    *)
(* grid (toMediaItem), by the homepage (slideshowItems) or handed over      *)
(* as it is, and then rendered by OptimizedMedia.                          *)
(***************************************************************************)
HomeImages == {None, Some(ImageMedia(Some("image-ref"), None)), Some(ImageMedia(None, None))}

InitMedia ==
    /\ PagesIdle
    /\ FetchIdle
    /\ mItem \in MediaItems
    /\ mPhase = "input"
    /\ mPath = "none"
    /\ mImage = None
    /\ mMedia = None
    /\ mOut = None
    /\ TitleIdle
    /\ MigrateIdle
    /\ BatchIdle

\* ProjectsGrid: const media = toMediaItem(image)
GridNormalize ==
    /\ mPhase = "input"
    /\ mMedia' = toMediaItem(Some(mItem))
    /\ mPath' = "grid"
    /\ mPhase' = "normalized"
    /\ UNCHANGED <<mItem, mImage, mOut>>
    /\ UNCHANGED <<pageVars, homeVars, gridVars, fetchVars, titleVars, migrateVars, batchVars>>

\* HomePageContent: slideshowItems of an item whose video is the object.
HomeNormalize ==
    /\ mPhase = "input"
    /\ \E image \in HomeImages :
          /\ mImage' = image
          /\ mMedia' = HomeSlideMedia([image |-> image, video |-> Some(mItem)])
    /\ mPath' = "home"
    /\ mPhase' = "normalized"
    /\ UNCHANGED <<mItem, mOut>>
    /\ UNCHANGED <<pageVars, homeVars, gridVars, fetchVars, titleVars, migrateVars, batchVars>>

\* A caller that passes the object to OptimizedMedia unchanged.
DirectPass ==
    /\ mPhase = "input"
    /\ mMedia' = Some(mItem)
    /\ mPath' = "direct"
    /\ mPhase' = "normalized"
    /\ UNCHANGED <<mItem, mImage, mOut>>
    /\ UNCHANGED <<pageVars, homeVars, gridVars, fetchVars, titleVars, migrateVars, batchVars>>

\* {media && <OptimizedMedia media={media} />}
RenderMedia ==
    /\ mPhase = "normalized"
    /\ mMedia # None
    /\ \E isInView \in BOOLEAN, env \in Envs :
          mOut' = Some(OptimizedMedia(mMedia[1], isInView, env))
    /\ mPhase' = "rendered"
    /\ UNCHANGED <<mItem, mPath, mImage, mMedia>>
    /\ UNCHANGED <<pageVars, homeVars, gridVars, fetchVars, titleVars, migrateVars, batchVars>>

NextMedia ==
    \/ GridNormalize
    \/ HomeNormalize
    \/ DirectPass
    \/ RenderMedia

SpecMedia == InitMedia /\ [][NextMedia]_vars


(***************************************************************************)
(* Plain-text extraction on its own: one title value is handed to one of   *)
(* the three copies of the extraction.                                     *)
(***************************************************************************)
InitTitle ==
    /\ PagesIdle
    /\ FetchIdle
    /\ MediaIdle
    /\ MigrateIdle
    /\ BatchIdle
    /\ tTitle \in Titles
    /\ tCopy = "none"
    /\ tPlain = None

\* The copy `copy` returns `plain` for the title.
Extracted(copy, plain) ==
    /\ tCopy = "none"
    /\ tCopy' = copy
    /\ tPlain' = Some(plain)
    /\ UNCHANGED <<tTitle, pageVars, homeVars, gridVars, fetchVars, mediaVars, migrateVars,
                   batchVars>>

\* ProjectsGrid: projectTitleToPlainText(project.title)
ExtractInGrid == Extracted("grid", projectTitleToPlainText(tTitle))

\* Project schema: titleToPlainText(value)
ExtractInSchema == Extracted("schema", titleToPlainText(tTitle))

\* Earlier project schema: titleToPlainText(value)
ExtractInPriorSchema == Extracted("prior", titleToPlainTextPrior(tTitle))

NextTitle ==
    \/ ExtractInGrid
    \/ ExtractInSchema
    \/ ExtractInPriorSchema

SpecTitle == InitTitle /\ [][NextTitle]_vars


(***************************************************************************)
(* The one-time migration script: project titles from string to one block. *)
(***************************************************************************)
\* process.env as read by the script.
MigrationEnvs ==
    [projectId : {None, Some(""), Some("proj")}, token : {None, Some(""), Some("tok")}]

\* Values of Math.random().toString(36).slice(2, 10).
RandomKeys == {"k1", "k2"}

\* Titles stored in the dataset before the migration.
StoredTitles ==
    {[kind |-> "string", text |-> t] : t \in StringTexts}
        \cup {TitleOf(1), [kind |-> "undefined"]}

\* The dataset: the title of each project document, by position.
Datasets == SeqsBetween(StoredTitles, 0, MaxDocs)

DocId(i) == <<"project", i>>

stringToBlockContent(text, blockKey, spanKey) ==
    [type |-> "block", key |-> blockKey,
     children |-> Some(<<[type |-> Some("span"), key |-> spanKey, text |-> Some(text),
                          marks |-> <<>>]>>),
     markDefs |-> <<>>]

\* `*[_type == "project"]{ _id, title }`
ProjectTitlesQuery(store) == [i \in 1..Len(store) |-> [id |-> DocId(i), title |-> store[i]]]

NextToPatch_SkipEmpty(docs, from) ==
    Min({i \in from..Len(docs) : docs[i].title.kind = "string" /\ docs[i].title.text # <<>>}
            \cup {Len(docs) + 1})

\* The for loop from position `from`: the first document whose title is a
\* string, or Len(docs) + 1 when the loop runs out.
NextToPatch(docs, from) ==
    Min({i \in from..Len(docs) : docs[i].title.kind = "string"} \cup {Len(docs) + 1})

InitMigrate ==
    /\ PagesIdle
    /\ FetchIdle
    /\ MediaIdle
    /\ TitleIdle
    /\ BatchIdle
    /\ migEnv \in MigrationEnvs
    /\ migPc = "start"
    /\ migStore \in Datasets
    /\ migOriginal = migStore
    /\ migDocs = <<>>
    /\ migIndex = 0
    /\ migrated = 0
    /\ migLog = <<>>
    /\ migExit = None
    /\ migReads = 0
    /\ migPatched = <<>>
    /\ migFirst = migStore
    /\ migDone = None

\* console.error(message); process.exit(1)
ExitWithError(message) ==
    /\ migLog' = Append(migLog, [level |-> "error", text |-> message])
    /\ migExit' = Some(1)
    /\ migPc' = "exited"

ConfigError_ProjectIdOnly(env) ==
    IF ~TruthyStr(env.projectId) THEN Some("Set NEXT_PUBLIC_SANITY_PROJECT_ID") ELSE None

\* The two configuration checks: the message of the first that fails.
ConfigError(env) ==
    IF ~TruthyStr(env.projectId) THEN Some("Set NEXT_PUBLIC_SANITY_PROJECT_ID")
    ELSE IF ~TruthyStr(env.token) THEN Some("Set SANITY_API_WRITE_TOKEN")
    ELSE None

\* Module top level: the configuration checks, createClient, and run() up to
\* its await of client.fetch.
StartMigration ==
    /\ migPc = "start"
    /\ IF ConfigError(migEnv) # None
       THEN ExitWithError(ConfigError(migEnv)[1]) /\ UNCHANGED migReads
       ELSE /\ migPc' = "fetching"
            /\ migReads' = migReads + 1
            /\ UNCHANGED <<migLog, migExit>>
    /\ UNCHANGED <<migEnv, migStore, migOriginal, migDocs, migIndex, migrated, migPatched>>
    /\ UNCHANGED <<migFirst, migDone>>
    /\ UNCHANGED <<pageVars, homeVars, gridVars, fetchVars, mediaVars, titleVars, batchVars>>

\* run: the for loop from position `from` with `count` documents migrated, up
\* to its next await of a commit or to the final message.
LoopFrom(docs, from, count, log) ==
    LET i == NextToPatch(docs, from)
    IN  /\ migIndex' = i
        /\ migrated' = count
        /\ IF i <= Len(docs)
           THEN migPc' = "committing" /\ migLog' = log /\ migExit' = migExit
           ELSE /\ migPc' = "done"
                /\ migLog' = Append(log, [level |-> "log", text |-> "Done", count |-> count])
                /\ migExit' = Some(0)

\* client.fetch resolves with the project documents; the loop starts.
FetchDocsResolves ==
    /\ migPc = "fetching"
    /\ migDocs' = ProjectTitlesQuery(migStore)
    /\ LoopFrom(ProjectTitlesQuery(migStore), 1, 0, migLog)
    /\ UNCHANGED <<migEnv, migStore, migOriginal, migReads, migPatched>>
    /\ UNCHANGED <<migFirst, migDone>>
    /\ UNCHANGED <<pageVars, homeVars, gridVars, fetchVars, mediaVars, titleVars, batchVars>>

\* client.fetch rejects: run().catch logs the error and exits.
FetchDocsRejects ==
    /\ migPc = "fetching"
    /\ ExitWithError("fetch failed")
    /\ UNCHANGED <<migEnv, migStore, migOriginal, migDocs, migIndex, migrated, migReads,
                   migPatched>>
    /\ UNCHANGED <<migFirst, migDone>>
    /\ UNCHANGED <<pageVars, homeVars, gridVars, fetchVars, mediaVars, titleVars, batchVars>>

CommitResolves_NoWrite ==
    /\ migPc = "committing"
    /\ migPatched' = Append(migPatched, migDocs[migIndex].id)
    /\ LoopFrom(migDocs, migIndex + 1, migrated + 1,
                Append(migLog, [level |-> "log", text |-> "Migrated project",
                                id |-> migDocs[migIndex].id]))
    /\ UNCHANGED <<migEnv, migStore, migOriginal, migDocs, migReads>>
    /\ UNCHANGED <<migFirst, migDone>>
    /\ UNCHANGED <<pageVars, homeVars, gridVars, fetchVars, mediaVars, titleVars, batchVars>>

\* client.patch(doc._id).set({ title: blockTitle }).commit() resolves: the
\* document now holds the block title; the loop goes on.
CommitResolves ==
    /\ migPc = "committing"
    /\ \E blockKey \in RandomKeys, spanKey \in RandomKeys :
          LET doc == migDocs[migIndex]
              blockTitle == [kind |-> "blocks",
                             blocks |-> <<stringToBlockContent(doc.title.text, blockKey,
                                                               spanKey)>>]
          IN  /\ migStore' = [migStore EXCEPT ![migIndex] = blockTitle]
              /\ migPatched' = Append(migPatched, doc.id)
              /\ LoopFrom(migDocs, migIndex + 1, migrated + 1,
                          Append(migLog, [level |-> "log", text |-> "Migrated project",
                                          id |-> doc.id]))
    /\ UNCHANGED <<migEnv, migOriginal, migDocs, migReads>>
    /\ UNCHANGED <<migFirst, migDone>>
    /\ UNCHANGED <<pageVars, homeVars, gridVars, fetchVars, mediaVars, titleVars, batchVars>>

CommitRejects_RollsBack ==
    /\ migPc = "committing"
    /\ ExitWithError("commit failed")
    /\ migStore' = migOriginal
    /\ UNCHANGED <<migEnv, migOriginal, migDocs, migIndex, migrated, migReads, migPatched>>
    /\ UNCHANGED <<migFirst, migDone>>
    /\ UNCHANGED <<pageVars, homeVars, gridVars, fetchVars, mediaVars, titleVars, batchVars>>

\* The commit rejects: run().catch logs the error and exits.
CommitRejects ==
    /\ migPc = "committing"
    /\ ExitWithError("commit failed")
    /\ UNCHANGED <<migEnv, migStore, migOriginal, migDocs, migIndex, migrated, migReads,
                   migPatched>>
    /\ UNCHANGED <<migFirst, migDone>>
    /\ UNCHANGED <<pageVars, homeVars, gridVars, fetchVars, mediaVars, titleVars, batchVars>>

\* The script is run again, as a new process over the dataset as the last
\* run left it, with the environment of that invocation.
RunAgain ==
    /\ migPc \in {"done", "exited"}
    /\ migEnv' \in MigrationEnvs
    /\ migPc' = "start"
    /\ migOriginal' = migStore
    /\ migDocs' = <<>>
    /\ migIndex' = 0
    /\ migrated' = 0
    /\ migLog' = <<>>
    /\ migExit' = None
    /\ migReads' = 0
    /\ migPatched' = <<>>
    /\ migDone' = IF migDone = None /\ migPc = "done" THEN Some(migStore) ELSE migDone
    /\ UNCHANGED <<migStore, migFirst>>
    /\ UNCHANGED <<pageVars, homeVars, gridVars, fetchVars, mediaVars, titleVars, batchVars>>

NextMigrate ==
    \/ StartMigration
    \/ FetchDocsResolves
    \/ FetchDocsRejects
    \/ CommitResolves
    \/ CommitRejects
    \/ RunAgain

SpecMigrate == InitMigrate /\ [][NextMigrate]_vars


(***************************************************************************)
(* The projects overlay with rendering made explicit.  The onPrev / onNext *)
(* closures of a render read overlaySlideIndex as that render saw it; a    *)
(* state update takes effect for the handlers only with the next render.   *)
(* Several activations may be handled before the component renders again.  *)
(***************************************************************************)
InitBatch ==
    /\ Init
    /\ route = "projects"

\* ProjectsPage mounts the client components.
BatchLoad ==
    /\ LoadProjects
    /\ UNCHANGED batchVars

\* openProject from a grid cell, and the render that shows the overlay.
BatchOpen ==
    /\ GridMounted
    /\ LET grid == cells
       IN  \E k \in 0..(Len(grid) - 1) :
              /\ openOverlay(grid[k + 1].project.id, grid[k + 1].imageIndex,
                             TitleOrUntitled(grid[k + 1].project.title),
                             grid[k + 1].totalImages)
              /\ renderedSlideIndex' = Some(grid[k + 1].imageIndex)
    /\ activatedNext' = 0
    /\ activatedPrev' = 0
    /\ keyAtOpen' = directionChangeKey
    /\ UNCHANGED <<pageVars, homeVars, projects, lastDirection, directionChangeKey,
                   visibleImages, fetchVars, mediaVars, titleVars, migrateVars>>

\* The buttons of the rendered overlay viewer exist.
BatchButtons ==
    /\ GridMounted
    /\ overlay # None
    /\ renderedSlideIndex # None
    /\ SlideshowRendersButtons(overlayMediaItems, renderedSlideIndex[1])

\* onNext of the rendered viewer: next = (overlaySlideIndex + 1) % n with the
\* captured overlaySlideIndex, then onOverlayNextClick.
BatchNext ==
    /\ BatchButtons
    /\ directionChangeKey < MaxKey
    /\ overlaySlideIndex' = StepNext(renderedSlideIndex[1], Len(overlayMediaItems))
    /\ handleOverlayNextClick
    /\ activatedNext' = activatedNext + 1
    /\ UNCHANGED <<renderedSlideIndex, activatedPrev, keyAtOpen>>
    /\ UNCHANGED <<pageVars, homeVars, projects, overlay, visibleImages, fetchVars,
                   mediaVars, titleVars, migrateVars>>

\* onPrev of the rendered viewer.
BatchPrev ==
    /\ BatchButtons
    /\ directionChangeKey < MaxKey
    /\ overlaySlideIndex' = StepPrev(renderedSlideIndex[1], Len(overlayMediaItems))
    /\ handleOverlayPrevClick
    /\ activatedPrev' = activatedPrev + 1
    /\ UNCHANGED <<renderedSlideIndex, activatedNext, keyAtOpen>>
    /\ UNCHANGED <<pageVars, homeVars, projects, overlay, visibleImages, fetchVars,
                   mediaVars, titleVars, migrateVars>>

\* The component renders again: new closures capture the current state.
BatchRender ==
    /\ GridMounted
    /\ overlay # None
    /\ renderedSlideIndex # Some(overlaySlideIndex)
    /\ renderedSlideIndex' = Some(overlaySlideIndex)
    /\ UNCHANGED <<activatedNext, activatedPrev, keyAtOpen>>
    /\ UNCHANGED <<pageVars, homeVars, gridVars, fetchVars, mediaVars, titleVars,
                   migrateVars>>

NextBatch ==
    \/ BatchLoad
    \/ BatchOpen
    \/ BatchNext
    \/ BatchPrev
    \/ BatchRender

SpecBatch == InitBatch /\ [][NextBatch]_vars


(***************************************************************************)
(* Properties.                                                             *)
(***************************************************************************)

\* C1: when the fetch of any of the seven accessors fails, the call completes
\* normally (nothing is thrown to the caller) and returns the empty array for
\* getProjects and getAllPosts, null for the five singleton accessors.
C1_FallbackOnFetchError ==
    [][FetchRejects =>
          /\ fetchReturn' # None
          /\ fetchReturn'[1].completion = "return"
          /\ fetchReturn'[1].value =
                 IF fetchCall[1].name \in {"getProjects", "getAllPosts"}
                 THEN JsArray(<<>>)
                 ELSE JsNull]_vars

\* A failed getProjects call has returned the empty array.
C1_Witness ==
    /\ fetchPc = "settled"
    /\ fetchCall = Some([name |-> "getProjects", slug |-> None])
    /\ fetchReturn = Some([completion |-> "return", value |-> JsArray(<<>>), logged |-> 1,
                           fetches |-> 1])

\* The index after one step forwards / backwards over n slides, with the
\* wrap-around written out.
CircularNext(i, n) == IF i = n - 1 THEN 0 ELSE i + 1

CircularPrev(i, n) == IF i = 0 THEN n - 1 ELSE i - 1

\* C2: stepping is circular on the homepage (goPrev / goNext) and in the
\* projects overlay (onPrev / onNext): with n >= 1 slides and the index i in
\* 0..n-1, next moves to i+1 or from n-1 to 0, prev to i-1 or from 0 to n-1.
C2_CircularStepping ==
    [][/\ GoNext =>
             /\ Len(items) >= 1 /\ selectedIndex \in 0..(Len(items) - 1)
             /\ selectedIndex' = CircularNext(selectedIndex, Len(items))
       /\ GoPrev =>
             /\ Len(items) >= 1 /\ selectedIndex \in 0..(Len(items) - 1)
             /\ selectedIndex' = CircularPrev(selectedIndex, Len(items))
       /\ OverlayNext =>
             LET n == Len(SlidesOf(overlayProject[1]))
             IN  /\ n >= 1 /\ overlaySlideIndex \in 0..(n - 1)
                 /\ overlaySlideIndex' = CircularNext(overlaySlideIndex, n)
       /\ OverlayPrev =>
             LET n == Len(SlidesOf(overlayProject[1]))
             IN  /\ n >= 1 /\ overlaySlideIndex \in 0..(n - 1)
                 /\ overlaySlideIndex' = CircularPrev(overlaySlideIndex, n)]_vars

\* One prev since the mount, in an overlay opened at index 0 of a project
\* with several slides, has wrapped to the last index.
C2_Witness ==
    /\ GridMounted
    /\ overlay # None
    /\ overlay[1].startIndex = 0
    /\ directionChangeKey = 1
    /\ lastDirection = Some("left")
    /\ Len(overlayMediaItems) >= 2
    /\ overlaySlideIndex = Len(overlayMediaItems) - 1

\* C3: openProject from cell k in the closed state opens the overlay on the
\* cell's project with the slide index equal to the cell's index inside its
\* project, both in the same step.
C3_OpenProjectFromClosed ==
    [][LET grid == cells
       IN  \A k \in 0..(Len(grid) - 1) :
              (overlay = None /\ OpenCell(grid, k)) =>
                  /\ overlay' # None
                  /\ overlay'[1].projectId = grid[k + 1].project.id
                  /\ overlay'[1].startIndex = grid[k + 1].imageIndex
                  /\ overlaySlideIndex' = grid[k + 1].imageIndex]_vars

\* The second project's second slide has been opened, before any prev/next.
C3_Witness ==
    /\ GridMounted
    /\ directionChangeKey = 0
    /\ overlay # None
    /\ overlay[1].projectId = "p2"
    /\ overlay[1].startIndex = 1
    /\ overlaySlideIndex = 1

\* C4: close is available in every open state (the backdrop is rendered), and
\* it leads to the closed state, in which no overlay viewer is rendered and the
\* navigation bar is the plain projects variant.
C4_CloseLeadsToClosed ==
    /\ [](GridMounted /\ overlay # None => ENABLED CloseOverlay)
    /\ [][CloseOverlay =>
             /\ overlay' = None
             /\ ~OverlayViewerRendered'
             /\ NavVariant' = "projects"]_vars

\* An overlay opened at slide 1 has been closed again.
C4_Witness ==
    /\ GridMounted
    /\ overlay = None
    /\ overlaySlideIndex = 1
    /\ directionChangeKey = 0

\* C5: prev sets the last-direction flag to "left", next to "right", each adds
\* exactly 1 to the change counter; no step decreases the counter, and only
\* prev and next change the flag, so it is the direction of the latest one.
C5_DirectionAndCounter ==
    [][/\ OverlayPrev =>
             lastDirection' = Some("left") /\ directionChangeKey' = directionChangeKey + 1
       /\ OverlayNext =>
             lastDirection' = Some("right") /\ directionChangeKey' = directionChangeKey + 1
       /\ GoPrev =>
             /\ homeLastDirection' = Some("left")
             /\ homeDirectionChangeKey' = homeDirectionChangeKey + 1
       /\ GoNext =>
             /\ homeLastDirection' = Some("right")
             /\ homeDirectionChangeKey' = homeDirectionChangeKey + 1
       /\ directionChangeKey' >= directionChangeKey
       /\ homeDirectionChangeKey' >= homeDirectionChangeKey
       /\ ~(OverlayPrev \/ OverlayNext) => lastDirection' = lastDirection
       /\ ~(GoPrev \/ GoNext) => homeLastDirection' = homeLastDirection]_vars

\* Two steps in the overlay, the later one a prev.
C5_Witness ==
    /\ GridMounted
    /\ lastDirection = Some("left")
    /\ directionChangeKey = 2

\* The flattened cell indices whose slide carries startVisible = true.
StartVisibleCells(grid) ==
    {k \in 0..(Len(grid) - 1) : grid[k + 1].image.startVisible = Some(TRUE)}

\* C6: at mount the revealed set is exactly the set of flattened cell indices
\* whose slide has startVisible = true.
C6_InitiallyRevealed ==
    [][(LoadProjects /\ stage' = "mounted") =>
          visibleImages' = StartVisibleCells(cells')]_vars

\* A mounted grid with a flagged cell behind an unflagged one, nothing toggled.
C6_Witness ==
    /\ GridMounted
    /\ Len(cells) >= 3
    /\ visibleImages = StartVisibleCells(cells)
    /\ visibleImages = {Len(cells) - 1}

\* C7: a pointer-enter on cell k toggles the membership of k in the revealed
\* set and of no other index; a second pointer-enter on k restores the set.
C7_ToggleOneCell ==
    [][LET grid == cells
       IN  \A k \in 0..(Len(grid) - 1) :
              EnterCell(grid, k) =>
                  /\ (k \in visibleImages') <=> (k \notin visibleImages)
                  /\ visibleImages' \ {k} = visibleImages \ {k}
                  /\ toggleCell(visibleImages', k) = visibleImages]_vars

\* A flagged cell has been toggled off and an unflagged one toggled on.
C7_Witness ==
    /\ GridMounted
    /\ \E k \in StartVisibleCells(cells) : k \notin visibleImages
    /\ \E k \in visibleImages : k \notin StartVisibleCells(cells)

\* A hosted-playback-id object whose playback id is empty or missing.
EmptyMux(m) ==
    m.videoType = Some("mux") /\ (m.muxPlaybackId = None \/ m.muxPlaybackId = Some(""))

\* C8 as stated: such an object is not classified as video on any path: not
\* by isVideo in the renderer, not by toMediaItem (it does not tag it), not by
\* hasVideo (the homepage takes the image).
C8_NeverClassifiedVideo ==
    /\ (mPhase = "rendered" /\ EmptyMux(mMedia[1])) => mOut[1].path # "video"
    /\ (EmptyMux(mItem) /\ mPath = "grid" /\ mMedia # None) => mMedia = Some(mItem)
    /\ (EmptyMux(mItem) /\ mPath = "home") => mMedia = mImage

\* C8, amended: such an object is never played.  On every path OptimizedMedia
\* renders no player and finds no source for it; toMediaItem does not tag it
\* (it passes it on unchanged when it carries an image asset and yields null
\* otherwise); hasVideo is false for it, so the homepage takes the image; and
\* isVideo holds for it exactly when it already carries the type tag "video".
C8_NeverPlayable ==
    EmptyMux(mItem) =>
        /\ mPhase = "rendered" =>
              /\ mOut[1].element \in {"OptimizedImage", "null"}
              /\ mOut[1].source = None
              /\ (mOut[1].path = "video") <=> (mMedia[1].type = Some("video"))
        /\ mPath = "grid" =>
              mMedia = IF mItem.asset # None THEN Some(mItem) ELSE None
        /\ mPath = "home" => mMedia = mImage
        /\ (mPath = "direct" /\ mPhase = "rendered" /\ mItem.type = Some("video")) =>
              mOut[1].path = "video" /\ mOut[1].element = "null"

\* A tagged video without playback id went down the video path and rendered
\* nothing.
C8_Witness ==
    /\ mPhase = "rendered"
    /\ mPath = "grid"
    /\ EmptyMux(mItem)
    /\ mItem.type = Some("video")
    /\ mItem.asset # None
    /\ mOut[1].path = "video"
    /\ mOut[1].element = "null"

ResolvedFlag(flag, default) ==
    IF flag = None THEN default ELSE IF flag = Some(TRUE) THEN TRUE ELSE FALSE

\* C10: for a video, each unset playback flag takes its default (autoplay
\* false, loop false, muted true, controls true) and each set flag is used as
\* set, whatever the other three are.
C10_PlaybackFlagDefaults ==
    (mPhase = "rendered" /\ mOut[1].path = "video") =>
        /\ mOut[1].autoplay = ResolvedFlag(mMedia[1].autoplay, FALSE)
        /\ mOut[1].loop = ResolvedFlag(mMedia[1].loop, FALSE)
        /\ mOut[1].muted = ResolvedFlag(mMedia[1].muted, TRUE)
        /\ mOut[1].controls = ResolvedFlag(mMedia[1].controls, TRUE)

\* A playing video with controls switched off, autoplay on, the rest unset.
C10_Witness ==
    /\ mPhase = "rendered"
    /\ mOut[1].element = "MuxPlayer"
    /\ mMedia[1].controls = Some(FALSE)
    /\ mMedia[1].autoplay = Some(TRUE)
    /\ mMedia[1].loop = None
    /\ mMedia[1].muted = None
    /\ mOut[1].controls = FALSE
    /\ mOut[1].autoplay = TRUE
    /\ mOut[1].loop = FALSE
    /\ mOut[1].muted = TRUE

Max(S) == CHOOSE x \in S : \A y \in S : x >= y

RECURSIVE ConcatAll(_)
ConcatAll(texts) == IF texts = <<>> THEN <<>> ELSE Head(texts) \o ConcatAll(Tail(texts))

\* All span text of one block, in order.
SpanTextOf(block) ==
    IF block.children = None THEN <<>>
    ELSE LET cs == block.children[1]
         IN  ConcatAll([i \in 1..Len(cs) |->
                           IF cs[i].type = Some("span") /\ cs[i].text # None
                           THEN cs[i].text[1] ELSE <<>>])

\* The blocks' span texts with a newline between consecutive blocks.
LinesOf(blocks) ==
    ConcatAll([i \in 1..Len(blocks) |->
                  IF i = 1 THEN SpanTextOf(blocks[i]) ELSE <<"\n">> \o SpanTextOf(blocks[i])])

\* A text without its leading and trailing whitespace.
Stripped(text) ==
    LET solid == {i \in 1..Len(text) : text[i] \notin {" ", "\n"}}
    IN  IF solid = {} THEN <<>> ELSE SubSeq(text, Min(solid), Max(solid))

\* C11: for a title of rich-text blocks, the extracted text is the span text
\* of each block concatenated, the blocks joined with newlines, the whole
\* trimmed; and for every title the three copies return the same text.
C11_TitlePlainText ==
    tCopy \in {"grid", "schema", "prior"} =>
        /\ tTitle.kind = "blocks" => tPlain = Some(Stripped(LinesOf(tTitle.blocks)))
        /\ tPlain = Some(projectTitleToPlainText(tTitle))
        /\ tPlain = Some(titleToPlainText(tTitle))
        /\ tPlain = Some(titleToPlainTextPrior(tTitle))

\* The grid's copy has extracted "a" from an empty block followed by a block
\* of an inline object and a span: the inline object's text is left out and
\* the newline between the blocks is trimmed away.
C11_Witness ==
    /\ tCopy = "grid"
    /\ tTitle = [kind |-> "blocks",
                 blocks |-> << [children |-> Some(<<>>)],
                               [children |-> Some(<< [type |-> Some("link"),
                                                      text |-> Some(<<"b">>)],
                                                     [type |-> Some("span"),
                                                      text |-> Some(<<"a">>)] >>)] >>]
    /\ tPlain = Some(<<"a">>)

\* A homepage without slideshow items: no document, no items field, no item.
NoHomeItems(h) ==
    \/ h = JsNull
    \/ h.kind = "doc" /\ (h.doc.items = None \/ h.doc.items = Some(<<>>))

\* C12: when getHomepage returned null, a document without items or an empty
\* items list, HomePageContent is not mounted: its state stays as it was
\* before any mount and neither goPrev nor goNext can happen; conversely a
\* mounted HomePageContent holds at least one item.
C12_EmptyHomepageRendersNothing ==
    (route = "home" /\ stage # "request") =>
        /\ homepage # None
        /\ NoHomeItems(homepage[1]) =>
              /\ stage = "empty"
              /\ HomeInitial
              /\ ~ENABLED GoPrev
              /\ ~ENABLED GoNext
        /\ stage = "mounted" => ~NoHomeItems(homepage[1]) /\ Len(items) > 0

\* The homepage document exists but its items list is empty.
C12_Witness ==
    /\ route = "home"
    /\ stage = "empty"
    /\ homepage = Some(JsDoc([items |-> Some(<<>>)]))

\* C13: with all order values distinct, the grid lists the projects by
\* ascending order value, as getProjects returned them: the cells of one
\* project are contiguous, one per slide in slide-index order, and the cells
\* of a project of lower order value come before those of a higher one.
C13_GridInAscendingOrder ==
    GridMounted =>
        LET grid == cells
        IN  /\ \A i, j \in 1..Len(projects) :
                  i < j => projects[i].order < projects[j].order
            /\ \A a, b \in 1..Len(grid) :
                  a < b =>
                     /\ grid[a].project.order <= grid[b].project.order
                     /\ grid[a].project.id = grid[b].project.id =>
                            grid[b].imageIndex = grid[a].imageIndex + (b - a)
            /\ \A i \in 1..Len(projects) :
                  LET own == {a \in 1..Len(grid) : grid[a].project = projects[i]}
                  IN  /\ Cardinality(own) = Len(SlidesOf(projects[i]))
                      /\ {grid[a].imageIndex : a \in own} = 0..(Cardinality(own) - 1)
                      /\ \A a \in own :
                            grid[a].image = SlidesOf(projects[i])[grid[a].imageIndex + 1]

\* The document stored second carries the lower order value: its two cells
\* come first, the cell of the document stored first comes last.
C13_Witness ==
    /\ GridMounted
    /\ Len(cells) = 3
    /\ cells[1].project.id = "p2" /\ cells[1].project.order = 1
    /\ cells[2].project.id = "p2" /\ cells[2].imageIndex = 1
    /\ cells[3].project.id = "p1" /\ cells[3].project.order = 2

\* A media reference that cannot be shown: no media, an image without an
\* asset, or a video without a resolvable source.
Malformed(media, env) ==
    \/ media = None
    \/ media # None /\ ~isVideo(media[1]) /\ media[1].asset = None
    \/ media # None /\ isVideo(media[1]) /\ getVideoSource(media[1], env) = None

\* The slide sequences on screen: the homepage's, the open overlay's.
MountedSlides ==
    (IF HomeMounted THEN {slideshowItems} ELSE {})
        \cup (IF GridMounted /\ overlay # None THEN {overlayMediaItems} ELSE {})

CompleteVideo(item) ==
    /\ item.video # None
    /\ \/ /\ item.video[1].videoType = Some("mux")
          /\ item.video[1].muxPlaybackId \notin {None, Some("")}
       \/ /\ item.video[1].videoType = Some("file")
          /\ item.video[1].videoFile # None
          /\ item.video[1].videoFile[1].asset # None

StringTitled == {i \in 1..Len(migOriginal) : migOriginal[i].kind = "string"}

\* The title is a sequence of exactly one block holding one span with `text`.
OneBlockOf(title, text) ==
    /\ title.kind = "blocks"
    /\ Len(title.blocks) = 1
    /\ title.blocks[1].type = "block"
    /\ title.blocks[1].children # None
    /\ Len(title.blocks[1].children[1]) = 1
    /\ title.blocks[1].children[1][1].type = Some("span")
    /\ title.blocks[1].children[1][1].text = Some(text)

\* C16: the migration never patches a document whose title was not a string
\* and leaves such a title as it was; once it has run to completion, every
\* title that was a string t is one block with one span holding t, and the
\* count in the final message is the number of string-titled documents read.
C16_MigrationConvertsStringTitles ==
    /\ \A k \in 1..Len(migPatched) : \E i \in StringTitled : migPatched[k] = DocId(i)
    /\ \A i \in 1..Len(migOriginal) : i \notin StringTitled => migStore[i] = migOriginal[i]
    /\ migPc = "done" =>
          /\ \A i \in StringTitled : OneBlockOf(migStore[i], migOriginal[i].text)
          /\ migrated = Cardinality(StringTitled)
          /\ migLog[Len(migLog)] =
                 [level |-> "log", text |-> "Done", count |-> Cardinality(StringTitled)]

\* A completed run over a block-titled document and a document titled with
\* the empty string: one document patched, one reported.
C16_Witness ==
    /\ migPc = "done"
    /\ Len(migOriginal) = 2
    /\ migOriginal[1].kind = "blocks"
    /\ migOriginal[2] = [kind |-> "string", text |-> <<>>]
    /\ migPatched = <<DocId(2)>>
    /\ migrated = 1

\* C17: when the project id or the write token is missing (unset or empty),
\* the script's first step ends the process with an error message and exit
\* status 1, and no query has been sent and no document patched.
C17_MissingConfigExitsFirst ==
    ((migEnv.projectId \in {None, Some("")} \/ migEnv.token \in {None, Some("")})
        /\ migPc \notin {"idle", "start"}) =>
        /\ migPc = "exited"
        /\ migExit = Some(1)
        /\ Len(migLog) = 1 /\ migLog[1].level = "error"
        /\ migReads = 0
        /\ migDocs = <<>>
        /\ migPatched = <<>>
        /\ migStore = migOriginal

\* The project id is set, the token is not, the dataset holds a string-titled
\* document, and the process has exited with the token message.
C17_Witness ==
    /\ migEnv = [projectId |-> Some("proj"), token |-> None]
    /\ Len(migOriginal) >= 1 /\ migOriginal[1].kind = "string"
    /\ migPc = "exited"
    /\ migExit = Some(1)
    /\ migLog = <<[level |-> "error", text |-> "Set SANITY_API_WRITE_TOKEN"]>>

\* C18: a call of any accessor has sent exactly one query while it is pending
\* and still exactly one when it has settled, with data or by failure; a
\* failure settles the call at once with the fallback, without a second
\* query.
C18_OneQueryPerCall ==
    /\ [](fetchPc = "pending" => fetchQueries = 1)
    /\ [](fetchPc = "settled" => fetchQueries = 1 /\ fetchReturn[1].fetches = 1)
    /\ [][FetchRejects =>
             /\ fetchPc' = "settled"
             /\ fetchQueries' = fetchQueries
             /\ fetchReturn'[1].value = Fallback(fetchCall[1].name)]_vars

\* The second call, a getPageBySlug, has failed after one query and returned
\* null.
C18_Witness ==
    /\ fetchCalls = 2
    /\ fetchPc = "settled"
    /\ fetchCall = Some([name |-> "getPageBySlug", slug |-> Some("about")])
    /\ fetchQueries = 1
    /\ fetchReturn[1].logged = 1
    /\ fetchReturn[1].value = JsNull

\* An openProject, close, prev, next or pointer-enter step.
Interaction ==
    \/ GoPrev \/ GoNext
    \/ OpenSomeProject \/ CloseOverlay \/ OverlayPrev \/ OverlayNext
    \/ ToggleSomeCell

\* C19: while the page's fetch has not resolved there is no client state (no
\* items, no projects, no overlay) and no interaction can happen; every
\* interaction happens on a mounted component; and once the fetch has
\* resolved, the items and the projects the components work on never change.
C19_FetchBeforeInteraction ==
    /\ [](stage = "request" =>
             /\ HomeInitial /\ GridInitial
             /\ ~ENABLED Interaction)
    /\ [][Interaction => stage = "mounted" /\ stage' = "mounted"]_vars
    /\ [][stage # "request" =>
             /\ stage' = stage
             /\ homepage' = homepage
             /\ items' = items
             /\ projects' = projects]_vars

\* Two projects were fetched; since then an overlay was opened and stepped
\* forwards once and the revealed set was changed.
C19_Witness ==
    /\ GridMounted
    /\ Len(projects) = 2
    /\ overlay # None
    /\ lastDirection = Some("right")
    /\ directionChangeKey = 1
    /\ visibleImages # StartVisibleCells(cells)

\* C20: whenever the overlay is open, its project is in the project list and
\* has n >= 1 slides, the slide index is within 0..n-1, the overlay's
\* totalSlides is n and the counter reads index+1 of n; on the homepage the
\* selected index is within 0..n-1 for the n >= 1 items and the counter reads
\* index+1 of n.
C20_IndexWithinBounds ==
    /\ (GridMounted /\ overlay # None) =>
          /\ overlayProject # None
          /\ LET n == Len(SlidesOf(overlayProject[1]))
             IN  /\ n >= 1
                 /\ overlaySlideIndex \in 0..(n - 1)
                 /\ overlay[1].totalSlides = n
                 /\ Len(overlayMediaItems) = n
                 /\ NavCounter(overlaySlideIndex, overlay[1].totalSlides)
                        = Some(<<overlaySlideIndex + 1, n>>)
    /\ HomeMounted =>
          /\ Len(items) >= 1
          /\ selectedIndex \in 0..(Len(items) - 1)
          /\ NavCounter(selectedIndex, Len(items)) = Some(<<selectedIndex + 1, Len(items)>>)

\* The overlay shows the first of two slides of the second project although
\* one step has been taken: the project was opened after the step, from
\* another overlay or after a close.
C20_Witness ==
    /\ GridMounted
    /\ overlay # None
    /\ overlay[1].projectId = "p2"
    /\ overlay[1].totalSlides = 2
    /\ overlay[1].startIndex = 0
    /\ overlaySlideIndex = 0
    /\ directionChangeKey = 1

\* C21: after an overlay was opened at index s on n slides and a next and b
\* prev activations were handled, in any order and however they fall between
\* renders, the index is (s + a - b) mod n and the change counter has grown
\* by a + b.
C21_EveryActivationSteps ==
    (GridMounted /\ overlay # None) =>
        LET n == Len(overlayMediaItems)
        IN  /\ overlaySlideIndex =
                   (overlay[1].startIndex + activatedNext + activatedPrev * (n - 1)) % n
            /\ directionChangeKey = keyAtOpen + activatedNext + activatedPrev

\* C22: navigation never dead-ends: on the mounted homepage slideshow and in
\* every open overlay the prev and next buttons are rendered, whatever media
\* the current slide carries, so that every index can be reached by stepping.
C22_NavigationNeverDeadEnds ==
    /\ HomeMounted => SlideshowRendersButtons(slideshowItems, selectedIndex)
    /\ (GridMounted /\ overlay # None) =>
           SlideshowRendersButtons(overlayMediaItems, overlaySlideIndex)

\* C23: the overlay state and the revealed set are independent: openProject,
\* close, prev and next leave the revealed set unchanged, and a pointer-enter
\* toggle, the only step that changes the revealed set, leaves the overlay,
\* the slide index, the last-direction flag and the change counter unchanged.
C23_OverlayAndRevealedIndependent ==
    [][/\ (OpenSomeProject \/ CloseOverlay \/ OverlayPrev \/ OverlayNext) =>
              visibleImages' = visibleImages
       /\ (ToggleSomeCell \/ visibleImages' # visibleImages) =>
              /\ overlay' = overlay
              /\ overlaySlideIndex' = overlaySlideIndex
              /\ lastDirection' = lastDirection
              /\ directionChangeKey' = directionChangeKey]_vars

\* An overlay stepped at least once is open while the revealed set differs
\* from the initial one.
C23_Witness ==
    /\ GridMounted
    /\ overlay # None
    /\ directionChangeKey > 0
    /\ visibleImages # getInitialVisibleIndices(cells)

\* C24: the last-direction flag is null and the change counter 0 until the
\* first prev/next, and only prev/next change them: openProject and close
\* leave both unchanged, and close leaves the stored slide index unchanged.
C24_DirectionSurvivesOpenAndClose ==
    /\ lastDirection = None
    /\ directionChangeKey = 0
    /\ [][/\ (lastDirection' # lastDirection \/ directionChangeKey' # directionChangeKey)
                 => (OverlayPrev \/ OverlayNext)
          /\ (OpenSomeProject \/ CloseOverlay) =>
                 /\ lastDirection' = lastDirection
                 /\ directionChangeKey' = directionChangeKey
          /\ CloseOverlay => overlaySlideIndex' = overlaySlideIndex]_vars

\* An overlay stepped to slide 1 has been closed: the flag, the counter and
\* the slide index are still those of the last step.
C24_Witness ==
    /\ GridMounted
    /\ overlay = None
    /\ lastDirection # None
    /\ directionChangeKey > 0
    /\ overlaySlideIndex = 1

\* C25: with the overlay closed no grid cell carries the active-cell
\* indicator; with the overlay open at (id, i) exactly one cell carries it, the
\* cell of project id with slide index i; on every prev/next the indicator moves
\* to the neighbouring cell of the same project, circularly.
C25_OneActiveCell ==
    /\ [](GridMounted =>
            LET grid == cells
                active == {k \in 0..(Len(grid) - 1) : isCurrentOverlaySlide(k)}
            IN  IF overlay = None THEN active = {}
                ELSE /\ Cardinality(active) = 1
                     /\ \A k \in active :
                            /\ grid[k + 1].project.id = overlay[1].projectId
                            /\ grid[k + 1].imageIndex = overlaySlideIndex)
    /\ [][(OverlayPrev \/ OverlayNext) =>
            LET grid == cells
                k == CHOOSE j \in 0..(Len(grid) - 1) : isCurrentOverlaySlide(j)
                n == grid[k + 1].totalImages
                first == k - grid[k + 1].imageIndex
                d == IF OverlayNext THEN 1 ELSE n - 1
                neighbour == first + ((k - first + d) % n)
            IN  \A j \in 0..(Len(grid) - 1) :
                    isCurrentOverlaySlide(j)' <=> j = neighbour]_vars

\* The indicator sits on the second slide of a project in a grid of three
\* cells, after a prev or next.
C25_Witness ==
    /\ GridMounted
    /\ Len(cells) = 3
    /\ lastDirection # None
    /\ overlaySlideIndex = 1
    /\ \E k \in 0..2 : isCurrentOverlaySlide(k)

\* C26: the migration preserves the plain text: for every project whose title
\* was a string t and has been migrated, the plain-text extraction of the
\* migrated title, by the grid's and by the schema's function, returns what the
\* extraction of the string t returned.
C26_MigrationPreservesPlainText ==
    \A i \in StringTitled :
        migStore[i].kind = "blocks" =>
            /\ projectTitleToPlainText(migStore[i]) =
                   projectTitleToPlainText(migOriginal[i])
            /\ titleToPlainText(migStore[i]) = titleToPlainText(migOriginal[i])

\* C27: the migration is idempotent: a run over the result of a completed run
\* reaches no commit, patches nothing and reports 0 migrated, and the stored
\* titles stay those the first completed run left.
C27_SecondRunPatchesNothing ==
    migDone # None =>
        /\ migStore = migDone[1]
        /\ migPatched = <<>>
        /\ migPc # "committing"
        /\ migPc = "done" =>
               /\ migrated = 0
               /\ migLog = <<[level |-> "log", text |-> "Done", count |-> 0]>>

\* A run has completed over the result of a completed run that found two
\* string titles.
C27_Witness ==
    /\ migDone # None
    /\ migPc = "done"
    /\ Len(migFirst) = 2
    /\ \A i \in 1..2 : migFirst[i].kind = "string" /\ migStore[i].kind = "blocks"

\* C28: when the commit for a document fails the process exits with status 1;
\* every string-titled document before it holds its one-block title with the
\* same text, the document itself and every later one hold the title they had,
\* and no document is in any other state.  Whenever a later run completes,
\* every title that was a string before the first run is one block with the
\* same text and every other title is as it was.
C28_FailedCommitLeavesPrefix ==
    /\ (migPc = "exited" /\ migIndex >= 1) =>
           /\ migExit = Some(1)
           /\ migOriginal[migIndex].kind = "string"
           /\ \A i \in 1..Len(migOriginal) :
                  IF i < migIndex /\ migOriginal[i].kind = "string"
                  THEN OneBlockOf(migStore[i], migOriginal[i].text)
                  ELSE migStore[i] = migOriginal[i]
    /\ migPc = "done" =>
           \A i \in 1..Len(migFirst) :
               IF migFirst[i].kind = "string"
               THEN OneBlockOf(migStore[i], migFirst[i].text)
               ELSE migStore[i] = migFirst[i]

\* The commit for the second of two string-titled documents has failed: the
\* first holds its block title, the second its string.
C28_Witness ==
    /\ migPc = "exited"
    /\ migIndex = 2
    /\ migOriginal[1].kind = "string"
    /\ migStore[1].kind = "blocks"
    /\ migStore[2].kind = "string"
    /\ migPatched = <<DocId(1)>>

\* A reference of the form "file-{id}-{extension}": the id and the extension
\* it names, or nothing.
DocumentedRef(ref) ==
    LET n == Len(ref)
        dashes == {i \in 6..n : ref[i] = "-"}
        d == IF dashes = {} THEN 0 ELSE Min(dashes)
    IN  IF /\ n >= 5
           /\ SubSeq(ref, 1, 5) = <<"f", "i", "l", "e", "-">>
           /\ Cardinality(dashes) = 1
           /\ d > 6 /\ d < n
           /\ \A k \in (d + 1)..n : ref[k] # "."
        THEN Some([fileId |-> SubSeq(ref, 6, d - 1), extension |-> SubSeq(ref, d + 1, n)])
        ELSE None

\* The video source the documentation of getVideoSource describes.
DocumentedSource(media, env) ==
    LET a == VideoFileAsset(media)
        ref == IF a # None /\ a[1].ref # None THEN DocumentedRef(a[1].ref[1]) ELSE None
    IN  IF media.videoType = Some("mux") /\ media.muxPlaybackId \notin {None, Some("")}
        THEN Some([kind |-> "playbackId", id |-> media.muxPlaybackId[1]])
        ELSE IF media.videoType = Some("file") /\ a # None /\ a[1].url \notin {None, Some("")}
        THEN Some([kind |-> "url", url |-> a[1].url[1]])
        ELSE IF media.videoType = Some("file") /\ ref # None
                  /\ env.projectId \notin {None, Some("")}
        THEN Some([kind |-> "cdn", projectId |-> env.projectId[1],
                   dataset |-> IF env.dataset \in {None, Some("")} THEN "production"
                               ELSE env.dataset[1],
                   fileId |-> ref[1].fileId, extension |-> ref[1].extension])
        ELSE None

\* C29: for a media rendered as a video, getVideoSource returns the playback
\* id of a hosted-playback-id video, the asset's url of a file upload that
\* carries one, the CDN URL files/{projectId}/{dataset}/{id}.{extension} of a
\* file upload whose asset carries no url but a reference
\* "file-{id}-{extension}" when the project id is configured, and null in
\* every other case.
C29_VideoSourceAsDocumented ==
    (mPhase = "rendered" /\ mOut[1].path = "video") =>
        /\ \A env \in Envs : getVideoSource(mMedia[1], env) = DocumentedSource(mMedia[1], env)
        /\ mOut[1].source \in {DocumentedSource(mMedia[1], env) : env \in Envs}

=============================================================================
